---- MODULE Spec2Model ----
(***************************************************************************)
(* Model of the Mackie control-surface driver                              *)
(* (src/ctrl_surf/imp/mackie.rs).                                          *)
(*                                                                         *)
(* The driver is a struct of five fields mutated by four public            *)
(* operations, each returning an ordered batch of messages.  Each          *)
(* operation is translated into an operator from (driver, input) to        *)
(* [self, out, panic]; the actions apply it to the variables.              *)
(*                                                                         *)
(* Spec is the driver alone.  SpecObserved makes the same calls and also   *)
(* keeps the history of what the driver received (user_holds_fader to      *)
(* touch_volume); SpecLeds and SpecDigits make the same calls and also     *)
(* keep what the device shows after the messages sent to it (led for the   *)
(* one, display for the other).  The properties about earlier calls are    *)
(* stated with these.                                                      *)
(*                                                                         *)
(* SpecApp is the shutdown of the UI application (src/ui/app.rs): the UI   *)
(* thread, the request channel and the controller thread it joins.         *)
(*                                                                         *)
(* Volumes are the 14-bit fader steps 0..16383 (step n stands for the      *)
(* normalized real n/16383); characters are their ASCII codes.             *)
(***************************************************************************)
EXTENDS Integers, Sequences, FiniteSets, TLC

VARIABLES
    last_tc,          \* Mackie.last_tc: the last rendered 10-character buffer
    chan,             \* Mackie.chan: channel nibble of the last device message
    state,            \* Mackie.state
    fader_state,      \* Mackie.fader_state
    device_id,        \* Mackie.device_id (NoDevice for None)
    panicked,         \* the thread driving the driver has panicked
    overflow_checks,  \* build profile: are integer overflow checks compiled in
    op,               \* the last call made on the driver, with its input
    out,              \* the batch that call returned
    user_holds_fader, \* the device's last touch report: is the fader held
    device_chan,      \* channel nibble of the last non-sysex device message
    touch_app_volume, \* last app Volume handled during the current touch
    touch_volume,     \* last app Volume or device fader move of that touch
    led,              \* the last value written to the Play and the Stop LED
    display,          \* the last character written to each of the 10 digits
    controller_thread,  \* App.controller_thread is Some(handle)
    req_queue,          \* the requests sent on App.req_tx and not yet received
    controller_running, \* the controller thread runs and holds the receiver
    app_pc,             \* where the UI thread is: idle, in join, dropped ...
    shutdown_calls,     \* calls of App::shutdown made so far, Drop's included
    shutdown_sent,      \* Request::Shutdown sent successfully so far
    join_calls          \* calls of JoinHandle::join made so far

vars == <<last_tc, chan, state, fader_state, device_id, panicked,
          overflow_checks, op, out, user_holds_fader, device_chan,
          touch_app_volume, touch_volume, led, display,
          controller_thread, req_queue, controller_running, app_pc,
          shutdown_calls, shutdown_sent, join_calls>>

----------------------------------------------------------------------------
(* Bounds of the model *)

MaxChan == 1
MaxVolIdx == 2
MaxSecs == 1
\* requests the UI may leave pending, and explicit calls of App::shutdown
MaxQueue == 3
MaxCalls == 3

----------------------------------------------------------------------------
(* Constants of the protocol *)

MACKIE_ID == <<0, 0, 102>>
XTOUCH_ID == 20
LOGIC_CONTROL_ID == 16
LOGIC_CONTROL_EXT_ID == 17

QUERY_DEVICE == 0
QUERY_HOST == 1
HOST_REPLY == 2
DEVICE_OK == 3
DEVICE_ERR == 4

BUTTON_TAG == 144
PRESSED == 127
RELEASED == 0
ON == PRESSED
OFF == RELEASED
PREVIOUS == 91
NEXT == 92
STOP == 93
PLAY == 94
FADER_TOUCHED == 104

DISPLAY_TAG == 176
TIME_LEFT_DIGIT == 73

FADER_TAG == 224
TOUCH_THRSD == 64

SYSEX_TAG == 240
SYSEX_END == 247

SPACE == 32
ZERO == 48
COLON == 58
DOT == 46

NoDevice == -1
NoVolume == -1

----------------------------------------------------------------------------
(* Messages *)

ToDevice(bytes) == [to |-> "device", ev |-> "Midi", res |-> "", val |-> 0, bytes |-> bytes]
ToApp(ev, val) == [to |-> "app", ev |-> ev, res |-> "", val |-> val, bytes |-> <<>>]
DataRequest == ToApp("DataRequest", 0)
from_connection_result(res) == [to |-> "app", ev |-> "ConnectionResult", res |-> res, val |-> 0, bytes |-> <<>>]
connetion_in_progress == [to |-> "app", ev |-> "ConnectionInProgress", res |-> "", val |-> 0, bytes |-> <<>>]

new_sysex(payload) == <<SYSEX_TAG>> \o payload \o <<SYSEX_END>>

parse_sysex(buf) ==
    IF Len(buf) >= 2 /\ buf[1] = SYSEX_TAG /\ buf[Len(buf)] = SYSEX_END
    THEN [ok |-> TRUE, payload |-> SubSeq(buf, 2, Len(buf) - 1)]
    ELSE [ok |-> FALSE, payload |-> <<>>]

Channel_from(tag_chan) == tag_chan % 16
from_tag_chan(tag_chan) == tag_chan - (tag_chan % 16)

to_be(vol) == <<vol \div 128, vol % 128>>
from_be(buf) ==
    IF buf[1] < 128 /\ buf[2] < 128
    THEN [ok |-> TRUE, value |-> buf[1] * 128 + buf[2]]
    ELSE [ok |-> FALSE, value |-> 0]

----------------------------------------------------------------------------
(* Driver state *)

States == {"Connecting_DeviceQueried", "Connecting_ChallengeReplied",
           "Connected", "Disconnected", "Playing", "Stopped"}

Released == [touched |-> FALSE, last_volume |-> NoVolume]
Touched(v) == [touched |-> TRUE, last_volume |-> v]

TimecodeBreakDown_default == [i \in 1..10 |-> SPACE]

Default ==
    [last_tc |-> TimecodeBreakDown_default,
     chan |-> 0,
     state |-> "Disconnected",
     fader_state |-> Released,
     device_id |-> NoDevice]

Self ==
    [last_tc |-> last_tc, chan |-> chan, state |-> state,
     fader_state |-> fader_state, device_id |-> device_id]

Ret(d, list) == [self |-> d, out |-> list, panic |-> FALSE]
Panic(d) == [self |-> d, out |-> <<>>, panic |-> TRUE]

----------------------------------------------------------------------------
(* 8-bit arithmetic *)

RECURSIVE Xor(_, _)
Xor(a, b) ==
    IF a = 0 THEN b
    ELSE IF b = 0 THEN a
    ELSE (((a % 2) + (b % 2)) % 2) + 2 * Xor(a \div 2, b \div 2)

RECURSIVE Or(_, _)
Or(a, b) ==
    IF a = 0 THEN b
    ELSE IF b = 0 THEN a
    ELSE (IF (a % 2) = 1 \/ (b % 2) = 1 THEN 1 ELSE 0) + 2 * Or(a \div 2, b \div 2)

Shl(a, n) == (a * (2 ^ n)) % 256
Shr(a, n) == a \div (2 ^ n)
InU8(x) == x \in 0..255
Wrap(x) == x % 256

----------------------------------------------------------------------------
(* Device handshake *)

prepare_payload(dev, req_id) == MACKIE_ID \o <<dev, req_id>>

payload_for(dev, req_id) == prepare_payload(dev, req_id)

\* Fault: a fresh connection is entered as Stopped
device_connected_as_stopped(d, dev) ==
    Ret([d EXCEPT !.device_id = dev, !.state = "Stopped"],
        <<from_connection_result("Ok"), DataRequest>>)

\* Fault: the device id is not recorded
device_connected_unbound(d, dev) ==
    Ret([d EXCEPT !.state = "Connected"],
        <<from_connection_result("Ok"), DataRequest>>)

device_connected(d, dev) ==
    Ret([d EXCEPT !.device_id = dev, !.state = "Connected"],
        <<from_connection_result("Ok"), DataRequest>>)

\* The four response bytes, and whether a u8 addition or subtraction of the
\* computation leaves 0..255 (a panic when overflow checks are compiled in,
\* a wraparound otherwise).
challenge_response(chlg) ==
    LET a0 == chlg[1] + Xor(chlg[2], 10)
        b0 == Wrap(a0) - chlg[4]
        a1 == chlg[1] + chlg[4]
        a2 == chlg[4] - Shl(chlg[3], 2)
        a3 == chlg[2] - chlg[3]
        b3 == Wrap(a3) + Xor(240, Shl(chlg[4], 4))
    IN  [overflow |-> ~(InU8(a0) /\ InU8(b0) /\ InU8(a1) /\ InU8(a2)
                        /\ InU8(a3) /\ InU8(b3)),
         resp |-> << (Wrap(b0)) % 128,
                     Xor(Shr(chlg[3], 4), Wrap(a1)) % 128,
                     Xor(Wrap(a2), Or(chlg[1], chlg[2])) % 128,
                     Wrap(b3) % 128 >>]

\* Fault: the device id is examined before the length of the data, so a
\* device that needs no challenge connects whatever the data
device_query_host_id_first(d, dev, serial_challenge, oc) ==
    IF dev # LOGIC_CONTROL_ID /\ dev # LOGIC_CONTROL_EXT_ID
    THEN LET r == device_connected(d, dev)
         IN  [self |-> r.self, ok |-> TRUE, out |-> r.out, panic |-> FALSE]
    ELSE IF Len(serial_challenge) < 11
    THEN [self |-> [d EXCEPT !.state = "Disconnected"], ok |-> FALSE,
          out |-> <<>>, panic |-> FALSE]
    ELSE LET c == challenge_response(SubSeq(serial_challenge, 8, 11))
             resp == prepare_payload(dev, HOST_REPLY)
                     \o SubSeq(serial_challenge, 1, 7) \o c.resp
         IN  IF oc /\ c.overflow
             THEN [self |-> d, ok |-> TRUE, out |-> <<>>, panic |-> TRUE]
             ELSE [self |-> [d EXCEPT !.state = "Connecting_ChallengeReplied"],
                   ok |-> TRUE,
                   out |-> <<ToDevice(new_sysex(resp)), connetion_in_progress>>,
                   panic |-> FALSE]

\* Result<Vec<Msg>, ()>
device_query_host(d, dev, serial_challenge, oc) ==
    IF Len(serial_challenge) < 11
    THEN [self |-> [d EXCEPT !.state = "Disconnected"], ok |-> FALSE,
          out |-> <<>>, panic |-> FALSE]
    ELSE LET ser == SubSeq(serial_challenge, 1, 7)
             chlg == SubSeq(serial_challenge, 8, 11)
         IN  IF dev = LOGIC_CONTROL_ID \/ dev = LOGIC_CONTROL_EXT_ID
             THEN LET c == challenge_response(chlg)
                      resp == prepare_payload(dev, HOST_REPLY) \o ser \o c.resp
                  IN  IF oc /\ c.overflow
                      THEN [self |-> d, ok |-> TRUE, out |-> <<>>, panic |-> TRUE]
                      ELSE [self |-> [d EXCEPT !.state = "Connecting_ChallengeReplied"],
                            ok |-> TRUE,
                            out |-> <<ToDevice(new_sysex(resp)), connetion_in_progress>>,
                            panic |-> FALSE]
             ELSE LET r == device_connected(d, dev)
                  IN  [self |-> r.self, ok |-> TRUE, out |-> r.out, panic |-> FALSE]

\* The handshake with one of two faults: a DEVICE_ERR that leaves the
\* connection state alone, or a manufacturer mismatch that disconnects.
device_connection_faulty(d, msg, oc, err_keeps_state, mismatch_disconnects) ==
    LET parsed == parse_sysex(msg)
        payload == parsed.payload
        Err(dd, kind) == [self |-> dd, ok |-> FALSE, err |-> kind,
                          out |-> <<>>, panic |-> FALSE]
        Off(dd) == [dd EXCEPT !.state = "Disconnected"]
    IN  IF ~parsed.ok THEN Err(d, "Midi")
        ELSE IF Len(payload) < 5 THEN Err(d, "UnexpectedDeviceMsg")
        ELSE IF SubSeq(payload, 1, 3) # MACKIE_ID
        THEN Err(IF mismatch_disconnects THEN Off(d) ELSE d, "ManufacturerMismatch")
        ELSE LET dev == payload[4]
                 code == payload[5]
                 rest == SubSeq(payload, 6, Len(payload))
             IN  CASE code = QUERY_HOST ->
                        LET r == device_query_host(d, dev, rest, oc)
                        IN  IF r.ok
                            THEN [self |-> r.self, ok |-> TRUE, err |-> "",
                                  out |-> r.out, panic |-> r.panic]
                            ELSE Err(r.self, "UnexpectedDeviceMsg")
                   [] code = DEVICE_OK ->
                        LET r == device_connected(d, dev)
                        IN  [self |-> r.self, ok |-> TRUE, err |-> "",
                             out |-> r.out, panic |-> FALSE]
                   [] code = DEVICE_ERR ->
                        Err(IF err_keeps_state THEN d ELSE Off(d), "ConnectionError")
                   [] OTHER -> Err(Off(d), "UnexpectedDeviceMsg")

\* Fault: DEVICE_ERR reports the error without disconnecting
device_connection_err_keeps_state(d, msg, oc) ==
    device_connection_faulty(d, msg, oc, TRUE, FALSE)

\* Fault: a manufacturer mismatch disconnects
device_connection_mismatch_disconnects(d, msg, oc) ==
    device_connection_faulty(d, msg, oc, FALSE, TRUE)

\* Result<Vec<Msg>, Error>: err names the error kind when ok is FALSE
device_connection(d, msg, oc) ==
    LET parsed == parse_sysex(msg)
        payload == parsed.payload
        Err(dd, kind) == [self |-> dd, ok |-> FALSE, err |-> kind,
                          out |-> <<>>, panic |-> FALSE]
    IN  IF ~parsed.ok THEN Err(d, "Midi")
        ELSE IF Len(payload) < 5 THEN Err(d, "UnexpectedDeviceMsg")
        ELSE IF SubSeq(payload, 1, 3) # MACKIE_ID THEN Err(d, "ManufacturerMismatch")
        ELSE LET dev == payload[4]
                 code == payload[5]
                 rest == SubSeq(payload, 6, Len(payload))
             IN  CASE code = QUERY_HOST ->
                        LET r == device_query_host(d, dev, rest, oc)
                        IN  IF r.ok
                            THEN [self |-> r.self, ok |-> TRUE, err |-> "",
                                  out |-> r.out, panic |-> r.panic]
                            ELSE Err(r.self, "UnexpectedDeviceMsg")
                   [] code = DEVICE_OK ->
                        LET r == device_connected(d, dev)
                        IN  [self |-> r.self, ok |-> TRUE, err |-> "",
                             out |-> r.out, panic |-> FALSE]
                   [] code = DEVICE_ERR ->
                        Err([d EXCEPT !.state = "Disconnected"], "ConnectionError")
                   [] code = QUERY_DEVICE ->
                        Err([d EXCEPT !.state = "Disconnected"], "UnexpectedDeviceMsg")
                   [] OTHER ->
                        Err([d EXCEPT !.state = "Disconnected"], "UnexpectedDeviceMsg")

device_sysex(d, msg, oc) ==
    LET r == device_connection(d, msg, oc)
    IN  IF r.ok
        THEN [self |-> r.self, out |-> r.out, panic |-> r.panic]
        ELSE Ret(r.self, <<from_connection_result(r.err)>>)

----------------------------------------------------------------------------
(* Device events *)

build_fader_msg(d, vol) ==
    LET two_bytes == to_be(vol)
    IN  ToDevice(<<FADER_TAG + d.chan, two_bytes[1], two_bytes[2]>>)

device_fader_touch(d, value) ==
    LET is_touched == value > TOUCH_THRSD
    IN  CASE ~d.fader_state.touched /\ is_touched ->
               Ret([d EXCEPT !.fader_state = Touched(NoVolume)], <<>>)
          [] d.fader_state.touched /\ ~is_touched ->
               LET d1 == [d EXCEPT !.fader_state = Released]
                   vol == d.fader_state.last_volume
               IN  IF vol # NoVolume
                   THEN Ret(d1, <<ToApp("Volume", vol), build_fader_msg(d1, vol)>>)
                   ELSE Ret(d1, <<>>)
          [] OTHER -> Ret(d, <<>>)

\* Fault: a fader move is forwarded to the application without being remembered
\* in the touch state
device_fader_moved_unbuffered(d, buf) ==
    LET r == from_be(buf)
    IN  IF ~r.ok THEN Ret(d, <<>>)
        ELSE Ret(d, <<ToApp("Volume", r.value)>>)

device_fader_moved(d, buf) ==
    LET r == from_be(buf)
    IN  IF ~r.ok THEN Ret(d, <<>>)
        ELSE IF d.fader_state.touched
        THEN Ret([d EXCEPT !.fader_state = Touched(r.value)],
                 <<ToApp("Volume", r.value)>>)
        ELSE Ret(d, <<ToApp("Volume", r.value)>>)

----------------------------------------------------------------------------
(* App events *)

\* Fault: the Play LED is switched on before the Stop LED is switched off
app_play_on_first(d) ==
    LET tag_chan == BUTTON_TAG + d.chan
    IN  CASE d.state \in {"Connected", "Stopped"} ->
               Ret([d EXCEPT !.state = "Playing"],
                   <<ToDevice(<<tag_chan, PLAY, ON>>), ToDevice(<<tag_chan, STOP, OFF>>)>>)
          [] d.state = "Playing" ->
               Ret(d, <<ToDevice(<<tag_chan, PLAY, ON>>)>>)
          [] OTHER -> Panic(d)

app_play(d) ==
    LET tag_chan == BUTTON_TAG + d.chan
    IN  CASE d.state \in {"Connected", "Stopped"} ->
               Ret([d EXCEPT !.state = "Playing"],
                   <<ToDevice(<<tag_chan, STOP, OFF>>), ToDevice(<<tag_chan, PLAY, ON>>)>>)
          [] d.state = "Playing" ->
               Ret(d, <<ToDevice(<<tag_chan, PLAY, ON>>)>>)
          [] OTHER -> Panic(d)

\* Fault: the Stop LED is switched on before the Play LED is switched off
app_pause_on_first(d) ==
    LET tag_chan == BUTTON_TAG + d.chan
    IN  CASE d.state \in {"Connected", "Playing"} ->
               Ret([d EXCEPT !.state = "Stopped"],
                   <<ToDevice(<<tag_chan, STOP, ON>>), ToDevice(<<tag_chan, PLAY, OFF>>)>>)
          [] d.state = "Stopped" ->
               Ret(d, <<ToDevice(<<tag_chan, STOP, ON>>)>>)
          [] OTHER -> Panic(d)

app_pause(d) ==
    LET tag_chan == BUTTON_TAG + d.chan
    IN  CASE d.state \in {"Connected", "Playing"} ->
               Ret([d EXCEPT !.state = "Stopped"],
                   <<ToDevice(<<tag_chan, PLAY, OFF>>), ToDevice(<<tag_chan, STOP, ON>>)>>)
          [] d.state = "Stopped" ->
               Ret(d, <<ToDevice(<<tag_chan, STOP, ON>>)>>)
          [] OTHER -> Panic(d)

\* Fault: the fader is moved whether or not it is touched
app_volume_unarbitrated(d, vol) == Ret(d, <<build_fader_msg(d, vol)>>)

app_volume(d, vol) ==
    IF ~d.fader_state.touched
    THEN Ret(d, <<build_fader_msg(d, vol)>>)
    ELSE Ret([d EXCEPT !.fader_state = Touched(vol)], <<>>)

Digit(n) == ZERO + n
TwoDigits(n) == <<Digit(n \div 10), Digit(n % 10)>>

\* format!("{:>13.3}", tc): hours right-aligned on 3 columns, then
\* ":MM:SS.mmm"
printable(tc) ==
    (IF tc.h < 10 THEN <<SPACE, SPACE, Digit(tc.h)>>
     ELSE <<SPACE>> \o TwoDigits(tc.h))
    \o <<COLON>> \o TwoDigits(tc.m)
    \o <<COLON>> \o TwoDigits(tc.s)
    \o <<DOT>> \o <<Digit(tc.ms \div 100)>> \o TwoDigits(tc.ms % 100)

TimecodeBreakDown_from(tc) ==
    LET bytes == printable(tc)
    IN  SubSeq(bytes, 1, 3) \o SubSeq(bytes, 5, 6) \o SubSeq(bytes, 8, 9)
        \o SubSeq(bytes, 11, 13)

\* Fault: every digit is sent again, changed or not
app_timecode_full_repaint(d, tc_in) ==
    LET tc == TimecodeBreakDown_from(tc_in)
        list == [i \in 1..10 |->
                    ToDevice(<<DISPLAY_TAG, TIME_LEFT_DIGIT - (i - 1), tc[i]>>)]
    IN  Ret([d EXCEPT !.last_tc = tc], list)

app_timecode(d, tc_in) ==
    LET tc == TimecodeBreakDown_from(tc_in)
        idxs == SelectSeq([i \in 1..10 |-> i], LAMBDA i : d.last_tc[i] # tc[i])
        list == [k \in 1..Len(idxs) |->
                    ToDevice(<<DISPLAY_TAG, TIME_LEFT_DIGIT - (idxs[k] - 1), tc[idxs[k]]>>)]
    IN  Ret([d EXCEPT !.last_tc = tc], list)

----------------------------------------------------------------------------
(* The ControlSurface operations *)

\* Fault: only Disconnected counts as not connected
is_connected_unless_disconnected(d) == d.state # "Disconnected"

is_connected(d) ==
    ~(d.state \in {"Connecting_DeviceQueried", "Connecting_ChallengeReplied",
                   "Disconnected"})

\* Fault: the transport sub-state is kept instead of collapsing to Connected
reset_not_collapsing(d) ==
    LET tag_chan == BUTTON_TAG + d.chan
        buttons == <<ToDevice(<<tag_chan, PREVIOUS, OFF>>),
                     ToDevice(<<tag_chan, NEXT, OFF>>),
                     ToDevice(<<tag_chan, STOP, OFF>>),
                     ToDevice(<<tag_chan, PLAY, OFF>>)>>
        digits == [i \in 1..10 |->
                      ToDevice(<<DISPLAY_TAG, TIME_LEFT_DIGIT - (i - 1), SPACE>>)]
    IN  Ret([Default EXCEPT !.state = d.state], buttons \o digits)

\* Fault: a driver that is not connected is taken offline
reset_disconnecting(d) ==
    LET tag_chan == BUTTON_TAG + d.chan
        buttons == <<ToDevice(<<tag_chan, PREVIOUS, OFF>>),
                     ToDevice(<<tag_chan, NEXT, OFF>>),
                     ToDevice(<<tag_chan, STOP, OFF>>),
                     ToDevice(<<tag_chan, PLAY, OFF>>)>>
        digits == [i \in 1..10 |->
                      ToDevice(<<DISPLAY_TAG, TIME_LEFT_DIGIT - (i - 1), SPACE>>)]
        st == IF d.state \in {"Connected", "Playing", "Stopped"}
              THEN "Connected" ELSE "Disconnected"
    IN  Ret([Default EXCEPT !.state = st], buttons \o digits)

reset(d) ==
    LET tag_chan == BUTTON_TAG + d.chan
        buttons == <<ToDevice(<<tag_chan, PREVIOUS, OFF>>),
                     ToDevice(<<tag_chan, NEXT, OFF>>),
                     ToDevice(<<tag_chan, STOP, OFF>>),
                     ToDevice(<<tag_chan, PLAY, OFF>>)>>
        digits == [i \in 1..10 |->
                      ToDevice(<<DISPLAY_TAG, TIME_LEFT_DIGIT - (i - 1), SPACE>>)]
        st == IF d.state \in {"Connected", "Playing", "Stopped"}
              THEN "Connected" ELSE d.state
    IN  Ret([Default EXCEPT !.state = st], buttons \o digits)

\* Fault: only the connection state is written, the rest of the driver is kept
start_identification_keeping(d) ==
    Ret([d EXCEPT !.state = "Connecting_DeviceQueried"],
        <<ToDevice(new_sysex(payload_for(XTOUCH_ID, QUERY_DEVICE)))>>)

start_identification(d) ==
    Ret([Default EXCEPT !.state = "Connecting_DeviceQueried"],
        <<ToDevice(new_sysex(payload_for(XTOUCH_ID, QUERY_DEVICE)))>>)

\* Fault: a transport button is reported whatever its value, on release as
\* on press
msg_from_device_any_value(d, buf, oc) ==
    IF Len(buf) = 0 THEN Ret(d, <<>>)
    ELSE LET d1 == [d EXCEPT !.chan = Channel_from(buf[1])]
             tag == from_tag_chan(buf[1])
         IN  CASE tag = BUTTON_TAG ->
                    IF Len(buf) < 3 THEN Ret(d1, <<>>)
                    ELSE CASE buf[2] = PREVIOUS -> Ret(d1, <<ToApp("Previous", 0)>>)
                           [] buf[2] = NEXT -> Ret(d1, <<ToApp("Next", 0)>>)
                           [] buf[2] = STOP -> Ret(d1, <<ToApp("Stop", 0)>>)
                           [] buf[2] = PLAY -> Ret(d1, <<ToApp("PlayPause", 0)>>)
                           [] buf[2] = FADER_TOUCHED ->
                                device_fader_touch(d1, buf[3])
                           [] OTHER -> Ret(d1, <<>>)
               [] tag = FADER_TAG ->
                    IF Len(buf) < 3 THEN Ret(d1, <<>>)
                    ELSE device_fader_moved(d1, SubSeq(buf, 2, 3))
               [] tag = SYSEX_TAG -> device_sysex(d1, buf, oc)
               [] OTHER -> Ret(d1, <<>>)

msg_from_device(d, buf, oc) ==
    IF Len(buf) = 0 THEN Ret(d, <<>>)
    ELSE LET d1 == [d EXCEPT !.chan = Channel_from(buf[1])]
             tag == from_tag_chan(buf[1])
         IN  CASE tag = BUTTON_TAG ->
                    IF Len(buf) < 3 THEN Ret(d1, <<>>)
                    ELSE CASE buf[2] = PREVIOUS /\ buf[3] = PRESSED ->
                                Ret(d1, <<ToApp("Previous", 0)>>)
                           [] buf[2] = NEXT /\ buf[3] = PRESSED ->
                                Ret(d1, <<ToApp("Next", 0)>>)
                           [] buf[2] = STOP /\ buf[3] = PRESSED ->
                                Ret(d1, <<ToApp("Stop", 0)>>)
                           [] buf[2] = PLAY /\ buf[3] = PRESSED ->
                                Ret(d1, <<ToApp("PlayPause", 0)>>)
                           [] buf[2] = FADER_TOUCHED ->
                                device_fader_touch(d1, buf[3])
                           [] OTHER -> Ret(d1, <<>>)
               [] tag = FADER_TAG ->
                    IF Len(buf) < 3 THEN Ret(d1, <<>>)
                    ELSE device_fader_moved(d1, SubSeq(buf, 2, 3))
               [] tag = SYSEX_TAG -> device_sysex(d1, buf, oc)
               [] OTHER -> Ret(d1, <<>>)

\* Fault: Play and Pause are dispatched before the connection is looked at
event_to_device_transport_ungated(d, event) ==
    IF event.kind = "Transport" /\ event.sub = "Play" THEN app_play(d)
    ELSE IF event.kind = "Transport" /\ event.sub = "Pause" THEN app_pause(d)
    ELSE IF ~is_connected(d) THEN Ret(d, <<>>)
    ELSE CASE event.kind = "Transport" ->
                IF event.sub = "Stop" THEN reset(d) ELSE Ret(d, <<>>)
           [] event.kind = "Mixer" ->
                IF event.sub = "Volume" THEN app_volume(d, event.vol)
                ELSE Ret(d, <<>>)
           [] event.kind = "NewApp" ->
                LET r == reset(d)
                IN  Ret(r.self, Append(r.out, DataRequest))
           [] event.kind = "Data" ->
                IF event.sub = "Timecode" THEN app_timecode(d, event.tc)
                ELSE Ret(d, <<>>)

event_to_device(d, event) ==
    IF ~is_connected(d) THEN Ret(d, <<>>)
    ELSE CASE event.kind = "Transport" ->
                CASE event.sub = "Play" -> app_play(d)
                  [] event.sub = "Pause" -> app_pause(d)
                  [] event.sub = "Stop" -> reset(d)
                  [] OTHER -> Ret(d, <<>>)
           [] event.kind = "Mixer" ->
                IF event.sub = "Volume" THEN app_volume(d, event.vol)
                ELSE Ret(d, <<>>)
           [] event.kind = "NewApp" ->
                LET r == reset(d)
                IN  Ret(r.self, Append(r.out, DataRequest))
           [] event.kind = "Data" ->
                IF event.sub = "Timecode" THEN app_timecode(d, event.tc)
                ELSE Ret(d, <<>>)

----------------------------------------------------------------------------
(* Inputs *)

Chans == 0..MaxChan
Vols == {(i * 16383) \div (MaxVolIdx + 1) : i \in 1..MaxVolIdx}

NoTc == [h |-> 0, m |-> 0, s |-> 0, ms |-> 0]
Timecodes == {[h |-> 0, m |-> 0, s |-> s, ms |-> 0] : s \in 0..MaxSecs}

Event(kind, sub, vol, tc) == [kind |-> kind, sub |-> sub, vol |-> vol, tc |-> tc]
NoEvent == Event("None", "", NoVolume, NoTc)

Events ==
    {Event("Transport", t, NoVolume, NoTc) :
        t \in {"Stop", "PlayPause", "Play", "Pause"}}
    \cup {Event("Mixer", "Volume", v, NoTc) : v \in Vols}
    \cup {Event("Mixer", "Mute", NoVolume, NoTc)}
    \cup {Event("NewApp", "", NoVolume, NoTc)}
    \cup {Event("Data", "Timecode", NoVolume, tc) : tc \in Timecodes}
    \cup {Event("Data", "Track", NoVolume, NoTc)}

Serial == <<1, 2, 3, 4, 5, 6, 7>>
Challenges == {<<0, 0, 0, 0>>, <<1, 2, 3, 4>>}
DeviceIds == {LOGIC_CONTROL_ID, LOGIC_CONTROL_EXT_ID, XTOUCH_ID}
OtherManufacturer == <<0, 0, 103>>

ButtonMsgs ==
    {<<BUTTON_TAG, id, PRESSED>> : id \in {PREVIOUS, NEXT, STOP}}
    \cup {<<BUTTON_TAG + c, PLAY, PRESSED>> : c \in Chans}
    \cup {<<BUTTON_TAG + c, FADER_TOUCHED, v>> :
            c \in Chans, v \in {RELEASED, PRESSED}}
    \cup {<<BUTTON_TAG, FADER_TOUCHED, v>> : v \in {TOUCH_THRSD, TOUCH_THRSD + 1}}
    \cup {<<BUTTON_TAG, PLAY, RELEASED>>, <<BUTTON_TAG, 95, PRESSED>>,
          <<BUTTON_TAG + MaxChan>>, <<BUTTON_TAG, FADER_TOUCHED>>}

\* the fader pushed to the top: a position no application volume of Vols has
FaderTop == 16383

FaderMsgs ==
    {<<FADER_TAG + MaxChan>> \o to_be(FaderTop),
     <<FADER_TAG, 128, 0>>, <<FADER_TAG, 5>>}

OtherMsgs == {<< >>, <<128 + MaxChan, 60, 0>>}

QueryHostData ==
    {Serial \o <<0, 0>>, Serial \o <<0, 0, 0, 0, 0>>}
    \cup {Serial \o c : c \in Challenges}

SysexPayloads ==
    {MACKIE_ID \o <<LOGIC_CONTROL_ID, QUERY_HOST>> \o data : data \in QueryHostData}
    \cup {MACKIE_ID \o <<dev, QUERY_HOST>> \o Serial \o <<0, 0, 0, 0>> :
            dev \in DeviceIds}
    \cup {MACKIE_ID \o <<XTOUCH_ID, QUERY_HOST>> \o Serial \o <<0, 0>>,
          MACKIE_ID \o <<LOGIC_CONTROL_ID, DEVICE_OK>> \o Serial}
    \cup {MACKIE_ID \o <<XTOUCH_ID, code>> \o Serial :
            code \in {QUERY_DEVICE, HOST_REPLY, DEVICE_ERR}}
    \cup {MACKIE_ID \o <<XTOUCH_ID, DEVICE_OK>>,
          OtherManufacturer \o <<XTOUCH_ID, DEVICE_OK>> \o Serial,
          MACKIE_ID \o <<XTOUCH_ID>>}

SysexMsgs ==
    {new_sysex(p) : p \in SysexPayloads}
    \cup {<<SYSEX_TAG>> \o MACKIE_ID \o <<XTOUCH_ID, DEVICE_OK>>}

DeviceMsgs == ButtonMsgs \cup FaderMsgs \cup OtherMsgs \cup SysexMsgs

----------------------------------------------------------------------------
(* The state machine *)

Op(name, msg, event) == [name |-> name, msg |-> msg, event |-> event]

\* what the device last reported about the touch sensor of the fader
TouchReport(buf, held) ==
    IF Len(buf) >= 3 /\ from_tag_chan(buf[1]) = BUTTON_TAG /\ buf[2] = FADER_TOUCHED
    THEN buf[3] > TOUCH_THRSD
    ELSE held

\* the channel nibble of the last non-sysex message received from the device
LastDeviceChan(buf, cur) ==
    IF Len(buf) >= 1 /\ from_tag_chan(buf[1]) # SYSEX_TAG
    THEN Channel_from(buf[1])
    ELSE cur

\* the volume a device message carries: the decoded value of a fader move
MovedVolume(buf) ==
    IF Len(buf) >= 3 /\ from_tag_chan(buf[1]) = FADER_TAG
       /\ from_be(SubSeq(buf, 2, 3)).ok
    THEN from_be(SubSeq(buf, 2, 3)).value
    ELSE NoVolume

\* the volume an application event carries to a connected driver
AppVolume(d, event) ==
    IF is_connected(d) /\ event.kind = "Mixer" /\ event.sub = "Volume"
    THEN event.vol
    ELSE NoVolume

\* the last volume received since the fader was touched: none once the fader
\* is Released or has just been touched, else the one this call received,
\* else the one remembered
TouchVolume(cur, before, after, received) ==
    IF ~after.fader_state.touched \/ ~before.fader_state.touched THEN NoVolume
    ELSE IF received # NoVolume THEN received
    ELSE cur

\* the UI application: its fields, its channel and its controller thread
app_vars == <<controller_thread, req_queue, controller_running, app_pc,
              shutdown_calls, shutdown_sent, join_calls>>

App ==
    [controller_thread |-> controller_thread, req_queue |-> req_queue,
     controller_running |-> controller_running]

\* App::try_new: the controller thread is spawned and its handle kept
try_new ==
    [controller_thread |-> TRUE, req_queue |-> << >>, controller_running |-> TRUE]

\* Sender::send: fails once the receiver is gone, else queues the request
send(a, req) ==
    IF a.controller_running
    THEN [ok |-> TRUE, self |-> [a EXCEPT !.req_queue = Append(@, req)]]
    ELSE [ok |-> FALSE, self |-> a]

\* Fault: the controller thread is joined whether the request was sent or not
shutdown_joining_unsent(a) ==
    IF a.controller_thread
    THEN LET a1 == [a EXCEPT !.controller_thread = FALSE]
             r == send(a1, "Shutdown")
         IN  [self |-> r.self, sent |-> r.ok, join |-> TRUE]
    ELSE [self |-> a, sent |-> FALSE, join |-> FALSE]

\* App::shutdown up to the call of join
shutdown(a) ==
    IF a.controller_thread
    THEN LET a1 == [a EXCEPT !.controller_thread = FALSE]
             r == send(a1, "Shutdown")
         IN  [self |-> r.self, sent |-> r.ok, join |-> r.ok]
    ELSE [self |-> a, sent |-> FALSE, join |-> FALSE]

Apply(r) ==
    /\ last_tc' = r.self.last_tc
    /\ chan' = r.self.chan
    /\ state' = r.self.state
    /\ fader_state' = r.self.fader_state
    /\ device_id' = r.self.device_id
    /\ panicked' = r.panic
    /\ out' = r.out
    /\ UNCHANGED overflow_checks

Init ==
    /\ last_tc = Default.last_tc
    /\ chan = Default.chan
    /\ state = Default.state
    /\ fader_state = Default.fader_state
    /\ device_id = Default.device_id
    /\ panicked = FALSE
    /\ overflow_checks \in BOOLEAN
    /\ op = Op("new", << >>, NoEvent)
    /\ out = << >>
    /\ user_holds_fader = FALSE
    /\ device_chan = 0
    /\ touch_app_volume = NoVolume
    /\ touch_volume = NoVolume
    /\ led = [play |-> FALSE, stop |-> FALSE]
    /\ display = TimecodeBreakDown_default
    /\ controller_thread = try_new.controller_thread
    /\ req_queue = try_new.req_queue
    /\ controller_running = try_new.controller_running
    /\ app_pc = "idle"
    /\ shutdown_calls = 0
    /\ shutdown_sent = 0
    /\ join_calls = 0

\* the calls of the four operations of the driver
start_identification_call ==
    /\ ~panicked
    /\ Apply(start_identification(Self))
    /\ op' = Op("start_identification", << >>, NoEvent)
    /\ UNCHANGED app_vars

msg_from_device_call ==
    /\ ~panicked
    /\ \E msg \in DeviceMsgs :
        /\ LET r == msg_from_device(Self, msg, overflow_checks) IN Apply(r)
        /\ op' = Op("msg_from_device", msg, NoEvent)
    /\ UNCHANGED app_vars

event_to_device_call ==
    /\ ~panicked
    /\ \E event \in Events :
        /\ LET r == event_to_device(Self, event) IN Apply(r)
        /\ op' = Op("event_to_device", << >>, event)
    /\ UNCHANGED app_vars

reset_call ==
    /\ ~panicked
    /\ Apply(reset(Self))
    /\ op' = Op("reset", << >>, NoEvent)
    /\ UNCHANGED app_vars

\* what an observer of the calls remembers of them
history == <<user_holds_fader, device_chan, touch_app_volume, touch_volume>>

\* what the device shows after the messages the driver sent to it
shown == <<led, display>>

StartIdentification == start_identification_call /\ UNCHANGED <<history, shown>>
MsgFromDevice == msg_from_device_call /\ UNCHANGED <<history, shown>>
EventToDevice == event_to_device_call /\ UNCHANGED <<history, shown>>
Reset == reset_call /\ UNCHANGED <<history, shown>>

Next ==
    \/ StartIdentification
    \/ MsgFromDevice
    \/ EventToDevice
    \/ Reset

Spec == Init /\ [][Next]_vars

\* the same calls, the observer keeping its history of them
Observe ==
    LET before == Self
        after == [Self EXCEPT !.fader_state = fader_state']
    IN  /\ user_holds_fader' = TouchReport(op'.msg, user_holds_fader)
        /\ device_chan' = LastDeviceChan(op'.msg, device_chan)
        /\ touch_app_volume' =
             TouchVolume(touch_app_volume, before, after, AppVolume(before, op'.event))
        /\ touch_volume' =
             TouchVolume(touch_volume, before, after,
                         IF op'.name = "msg_from_device"
                         THEN MovedVolume(op'.msg)
                         ELSE AppVolume(before, op'.event))

StartIdentificationObserved ==
    start_identification_call /\ Observe /\ UNCHANGED shown
MsgFromDeviceObserved == msg_from_device_call /\ Observe /\ UNCHANGED shown
EventToDeviceObserved == event_to_device_call /\ Observe /\ UNCHANGED shown
ResetObserved == reset_call /\ Observe /\ UNCHANGED shown

NextObserved ==
    \/ StartIdentificationObserved
    \/ MsgFromDeviceObserved
    \/ EventToDeviceObserved
    \/ ResetObserved

SpecObserved == Init /\ [][NextObserved]_vars

\* the Play and Stop LEDs after the device got one message: a button message
\* [tag|chan, id, value] writes value to the LED of id
LedAfter(l, m) ==
    IF m.to = "device" /\ Len(m.bytes) = 3
       /\ from_tag_chan(m.bytes[1]) = BUTTON_TAG
    THEN CASE m.bytes[2] = PLAY -> [l EXCEPT !.play = (m.bytes[3] = ON)]
           [] m.bytes[2] = STOP -> [l EXCEPT !.stop = (m.bytes[3] = ON)]
           [] OTHER -> l
    ELSE l

\* the digits after the device got one message: a display message
\* [tag, index, char] writes char at index, TIME_LEFT_DIGIT being the first
DisplayAfter(disp, m) ==
    IF m.to = "device" /\ Len(m.bytes) = 3
       /\ from_tag_chan(m.bytes[1]) = DISPLAY_TAG
       /\ TIME_LEFT_DIGIT - m.bytes[2] \in 0..9
    THEN [disp EXCEPT ![TIME_LEFT_DIGIT - m.bytes[2] + 1] = m.bytes[3]]
    ELSE disp

\* the LEDs and the digits after the device got the first k messages of a batch
RECURSIVE LedsAfter(_, _, _)
LedsAfter(l, list, k) ==
    IF k = 0 THEN l ELSE LedAfter(LedsAfter(l, list, k - 1), list[k])

RECURSIVE DigitsAfter(_, _, _)
DigitsAfter(disp, list, k) ==
    IF k = 0 THEN disp ELSE DisplayAfter(DigitsAfter(disp, list, k - 1), list[k])

\* the same calls, the LEDs of the device following every batch
ShowLeds ==
    /\ led' = LedsAfter(led, out', Len(out'))
    /\ UNCHANGED <<display, history>>

StartIdentificationLeds == start_identification_call /\ ShowLeds
MsgFromDeviceLeds == msg_from_device_call /\ ShowLeds
EventToDeviceLeds == event_to_device_call /\ ShowLeds
ResetLeds == reset_call /\ ShowLeds

NextLeds ==
    \/ StartIdentificationLeds
    \/ MsgFromDeviceLeds
    \/ EventToDeviceLeds
    \/ ResetLeds

SpecLeds == Init /\ [][NextLeds]_vars

\* the same calls, the digits of the device following every batch
ShowDigits ==
    /\ display' = DigitsAfter(display, out', Len(out'))
    /\ UNCHANGED <<led, history>>

StartIdentificationDigits == start_identification_call /\ ShowDigits
MsgFromDeviceDigits == msg_from_device_call /\ ShowDigits
EventToDeviceDigits == event_to_device_call /\ ShowDigits
ResetDigits == reset_call /\ ShowDigits

NextDigits ==
    \/ StartIdentificationDigits
    \/ MsgFromDeviceDigits
    \/ EventToDeviceDigits
    \/ ResetDigits

SpecDigits == Init /\ [][NextDigits]_vars

\* the requests the UI sends while it runs
Requests == {"RefreshPorts", "RefreshPlayers", "ResetPlayer"}

driver_vars ==
    <<last_tc, chan, state, fader_state, device_id, panicked, overflow_checks,
      op, out, history, shown>>

ApplyShutdown(r, joining, done) ==
    /\ controller_thread' = r.self.controller_thread
    /\ req_queue' = r.self.req_queue
    /\ controller_running' = r.self.controller_running
    /\ shutdown_calls' = shutdown_calls + 1
    /\ shutdown_sent' = shutdown_sent + (IF r.sent THEN 1 ELSE 0)
    /\ join_calls' = join_calls + (IF r.join THEN 1 ELSE 0)
    /\ app_pc' = IF r.join THEN joining ELSE done

\* App::send_req: the unwrap panics when the controller thread is gone
SendReq ==
    /\ app_pc = "idle"
    /\ Len(req_queue) < MaxQueue
    /\ \E req \in Requests :
        LET r == send(App, req)
        IN  /\ req_queue' = r.self.req_queue
            /\ app_pc' = IF r.ok THEN "idle" ELSE "panicking"
    /\ UNCHANGED <<controller_thread, controller_running, shutdown_calls,
                   shutdown_sent, join_calls, driver_vars>>

\* an explicit call of App::shutdown
Shutdown ==
    /\ app_pc = "idle"
    /\ shutdown_calls < MaxCalls
    /\ LET r == shutdown(App) IN ApplyShutdown(r, "join", "idle")
    /\ UNCHANGED driver_vars

\* Drop for App, at the end of the run or while a panic unwinds
Drop ==
    /\ app_pc \in {"idle", "panicking"}
    /\ LET r == shutdown(App) IN ApplyShutdown(r, "drop_join", "dropped")
    /\ UNCHANGED driver_vars

\* join returns once the controller thread has ended
JoinReturns ==
    /\ app_pc \in {"join", "drop_join"}
    /\ ~controller_running
    /\ app_pc' = IF app_pc = "join" THEN "idle" ELSE "dropped"
    /\ UNCHANGED <<controller_thread, req_queue, controller_running,
                   shutdown_calls, shutdown_sent, join_calls, driver_vars>>

\* the controller thread receives a request; Shutdown ends it, and the
\* receiver goes with it
ControllerHandle ==
    /\ controller_running
    /\ req_queue # << >>
    /\ IF Head(req_queue) = "Shutdown"
       THEN controller_running' = FALSE /\ req_queue' = << >>
       ELSE controller_running' = TRUE /\ req_queue' = Tail(req_queue)
    /\ UNCHANGED <<controller_thread, app_pc, shutdown_calls, shutdown_sent,
                   join_calls, driver_vars>>

\* the controller thread ends on its own, and the receiver goes with it
ControllerExit ==
    /\ controller_running
    /\ controller_running' = FALSE
    /\ req_queue' = << >>
    /\ UNCHANGED <<controller_thread, app_pc, shutdown_calls, shutdown_sent,
                   join_calls, driver_vars>>

NextApp ==
    \/ SendReq
    \/ Shutdown
    \/ Drop
    \/ JoinReturns
    \/ ControllerHandle
    \/ ControllerExit

SpecApp == Init /\ [][NextApp]_vars

TypeOK ==
    /\ state \in States
    /\ chan \in 0..15
    /\ fader_state.touched \in BOOLEAN
    /\ fader_state.last_volume \in {NoVolume} \cup 0..16383
    /\ ~fader_state.touched => fader_state.last_volume = NoVolume
    /\ device_id \in {NoDevice} \cup 0..127
    /\ Len(last_tc) = 10
    /\ panicked \in BOOLEAN

----------------------------------------------------------------------------
(* Vocabulary of the properties *)

NotConnectedStates ==
    {"Disconnected", "Connecting_DeviceQueried", "Connecting_ChallengeReplied"}

IsEvent(o) == o.name = "event_to_device"
IsVolumeEvent(o) ==
    IsEvent(o) /\ o.event.kind = "Mixer" /\ o.event.sub = "Volume"

IsTouchMsg(o) ==
    /\ o.name = "msg_from_device"
    /\ Len(o.msg) >= 3
    /\ o.msg[1] \in BUTTON_TAG..(BUTTON_TAG + 15)
    /\ o.msg[2] = FADER_TOUCHED
IsTouchPress(o) == IsTouchMsg(o) /\ o.msg[3] > 64
IsTouchRelease(o) == IsTouchMsg(o) /\ o.msg[3] <= 64

\* a device-bound fader-position message
IsFaderMsg(m) ==
    /\ m.to = "device"
    /\ Len(m.bytes) = 3
    /\ m.bytes[1] \in FADER_TAG..(FADER_TAG + 15)

\* a device-bound fader-position message whose 14 bits encode v
EncodesVolume(m, v) ==
    /\ IsFaderMsg(m)
    /\ m.bytes[2] \in 0..127
    /\ m.bytes[3] \in 0..127
    /\ m.bytes[2] * 128 + m.bytes[3] = v

IsSysex(o) ==
    /\ o.name = "msg_from_device"
    /\ Len(o.msg) >= 2
    /\ o.msg[1] = 240
    /\ o.msg[Len(o.msg)] = 247
SysexPayload(o) == SubSeq(o.msg, 2, Len(o.msg) - 1)
\* a sysex whose payload has the 5 header bytes and the Mackie manufacturer id
IsMackieSysex(o) ==
    /\ IsSysex(o)
    /\ Len(SysexPayload(o)) >= 5
    /\ SubSeq(SysexPayload(o), 1, 3) = <<0, 0, 102>>
SysexDevice(o) == SysexPayload(o)[4]
SysexCode(o) == SysexPayload(o)[5]
SysexData(o) == SubSeq(SysexPayload(o), 6, Len(SysexPayload(o)))

IsConnectionError(m, kind) ==
    m.to = "app" /\ m.ev = "ConnectionResult" /\ m.res = kind
IsConnectionOk(m) == IsConnectionError(m, "Ok")
IsDataRequest(m) == m.to = "app" /\ m.ev = "DataRequest"

DeviceBound(list) == SelectSeq(list, LAMBDA m : m.to = "device")

----------------------------------------------------------------------------
(* Properties *)

Driver == <<last_tc, chan, state, fader_state, device_id>>

\* C1 -- Connection gating: while the connection state is Disconnected or
\* Connecting(_), event_to_device returns an empty batch for every
\* application event and leaves every field of the driver unchanged.
C1_ConnectionGating ==
    [][(IsEvent(op') /\ state \in NotConnectedStates)
        => (out' = << >> /\ Driver' = Driver /\ ~panicked')]_vars

\* a volume event was dropped during the handshake
C1_Witness ==
    /\ IsVolumeEvent(op)
    /\ state = "Connecting_ChallengeReplied"
    /\ out = << >>

\* C2 -- Fader arbitration step: while connected, a touch press takes the
\* fader from Released to Touched; an application Volume(v) while Touched
\* returns nothing and buffers v; a touch release with v buffered returns
\* exactly the app-bound Volume(v) then the device-bound fader message
\* encoding v, and the fader becomes Released; an application Volume(v) while
\* Released returns exactly one device-bound fader message encoding v.
C2_FaderArbitration ==
    [][/\ (IsTouchPress(op') /\ ~fader_state.touched)
            => (fader_state' = Touched(NoVolume) /\ out' = << >>)
       /\ (IsVolumeEvent(op') /\ state \notin NotConnectedStates
           /\ fader_state.touched)
            => (out' = << >> /\ fader_state' = Touched(op'.event.vol))
       /\ (IsTouchRelease(op') /\ fader_state.touched
           /\ fader_state.last_volume # NoVolume)
            => (/\ Len(out') = 2
                /\ out'[1] = ToApp("Volume", fader_state.last_volume)
                /\ EncodesVolume(out'[2], fader_state.last_volume)
                /\ fader_state' = Released)
       /\ (IsVolumeEvent(op') /\ state \notin NotConnectedStates
           /\ ~fader_state.touched)
            => (/\ Len(out') = 1
                /\ EncodesVolume(out'[1], op'.event.vol)
                /\ fader_state' = Released)
      ]_vars

\* a release has just re-asserted a buffered volume to the app and the motor
C2_Witness ==
    /\ IsTouchRelease(op)
    /\ state \notin NotConnectedStates
    /\ fader_state = Released
    /\ Len(out) = 2
    /\ \E v \in Vols : out[1] = ToApp("Volume", v) /\ EncodesVolume(out[2], v)

\* C3 -- Feedback-loop avoidance: from a touch press reported by the device
\* until the next touch release it reports, no call returns a device-bound
\* fader-position message, whatever is interleaved.
C3_NoFaderMoveWhileHeld ==
    [][(user_holds_fader /\ user_holds_fader')
        => (\A i \in 1..Len(out') : ~IsFaderMsg(out'[i]))]_vars

\* a well-formed QUERY_HOST from a device of the Logic Control family
IsChallenge(o) ==
    /\ IsMackieSysex(o)
    /\ SysexDevice(o) \in {16, 17}
    /\ SysexCode(o) = 1
    /\ Len(SysexData(o)) >= 11

\* C4 -- Challenge reply: a QUERY_HOST with the Mackie manufacturer id, a
\* sub-model id 0x10 or 0x11 and at least 11 data bytes sets the state to
\* Connecting(ChallengeReplied) and returns a batch whose only device-bound
\* message is the HOST_REPLY sysex for the same sub-model id, carrying the
\* received serial and 4 response bytes, with no successful connection
\* result and no data request.
C4_ChallengeReply ==
    [][IsChallenge(op')
        => (/\ ~panicked'
            /\ state' = "Connecting_ChallengeReplied"
            /\ Len(DeviceBound(out')) = 1
            /\ LET b == DeviceBound(out')[1].bytes
               IN  /\ Len(b) = 18
                   /\ SubSeq(b, 1, 6) = <<240, 0, 0, 102, SysexDevice(op'), 2>>
                   /\ SubSeq(b, 7, 13) = SubSeq(SysexData(op'), 1, 7)
                   /\ b[18] = 247
            /\ \A i \in 1..Len(out') :
                  ~IsConnectionOk(out'[i]) /\ ~IsDataRequest(out'[i]))]_vars

\* C5 -- Malformed challenge: a QUERY_HOST with a valid manufacturer header
\* and fewer than 11 data bytes, for any sub-model id, sets the state to
\* Disconnected, emits no device-bound message and returns a connection
\* result carrying UnexpectedDeviceMessage.
C5_MalformedChallenge ==
    [][(IsMackieSysex(op') /\ SysexCode(op') = 1 /\ Len(SysexData(op')) < 11)
        => (/\ state' = "Disconnected"
            /\ DeviceBound(out') = << >>
            /\ Len(out') = 1
            /\ IsConnectionError(out'[1], "UnexpectedDeviceMsg")
            /\ ~panicked')]_vars

\* a connected driver dropped by a 9-byte QUERY_HOST of a device that needs
\* no challenge
C5_Witness ==
    /\ IsMackieSysex(op) /\ SysexCode(op) = 1 /\ Len(SysexData(op)) = 9
    /\ SysexDevice(op) = 20
    /\ state = "Disconnected"
    /\ device_id # NoDevice
    /\ Len(out) = 1 /\ IsConnectionError(out[1], "UnexpectedDeviceMsg")

HandshakeErrors == {"UnexpectedDeviceMsg", "ManufacturerMismatch", "ConnectionError"}

ReturnsHandshakeError(o, list) ==
    /\ IsSysex(o)
    /\ \E i \in 1..Len(list), k \in HandshakeErrors : IsConnectionError(list[i], k)

\* C6 as stated -- Handshake errors are terminal: every sysex whose handling
\* yields UnexpectedDeviceMessage, ManufacturerMismatch or ConnectionError
\* leaves the connection state Disconnected, from whatever state.
C6_ErrorsAreTerminal ==
    [][ReturnsHandshakeError(op', out') => state' = "Disconnected"]_vars

\* C6 amended -- a sysex whose handling yields one of the three errors
\* returns that error as the only message of the batch; the connection state
\* becomes Disconnected when the payload has its 5 header bytes and the
\* Mackie manufacturer id (ConnectionError, and UnexpectedDeviceMessage for
\* a bad code or a malformed challenge), and is left as it was for a payload
\* shorter than 5 bytes and for a manufacturer mismatch.
C6_ErrorsAfterHeaderAreTerminal ==
    [][ReturnsHandshakeError(op', out')
        => (/\ Len(out') = 1
            /\ ~panicked'
            /\ IF IsMackieSysex(op')
               THEN /\ state' = "Disconnected"
                    /\ \/ IsConnectionError(out'[1], "ConnectionError")
                       \/ IsConnectionError(out'[1], "UnexpectedDeviceMsg")
               ELSE /\ state' = state
                    /\ IF Len(SysexPayload(op')) < 5
                       THEN IsConnectionError(out'[1], "UnexpectedDeviceMsg")
                       ELSE IsConnectionError(out'[1], "ManufacturerMismatch"))]_vars

\* a DEVICE_ERR has disconnected a driver that was bound to a device
C6_Witness ==
    /\ IsMackieSysex(op) /\ SysexCode(op) = 4
    /\ state = "Disconnected"
    /\ device_id # NoDevice
    /\ Len(out) = 1 /\ IsConnectionError(out[1], "ConnectionError")

IsMismatch(o) ==
    /\ IsSysex(o)
    /\ Len(SysexPayload(o)) >= 5
    /\ SubSeq(SysexPayload(o), 1, 3) # <<0, 0, 102>>

\* C7 -- Manufacturer mismatch changes no state: a sysex of at least 5
\* payload bytes whose first 3 differ from {0x00,0x00,0x66} returns a
\* ManufacturerMismatch error and leaves the connection state, the fader
\* state, the stored timecode and the device id as they were.
C7_MismatchChangesNoState ==
    [][IsMismatch(op')
        => (/\ Len(out') = 1
            /\ IsConnectionError(out'[1], "ManufacturerMismatch")
            /\ state' = state
            /\ fader_state' = fader_state
            /\ last_tc' = last_tc
            /\ device_id' = device_id
            /\ ~panicked')]_vars

\* a mismatch received while playing, the fader touched and a timecode shown
C7_Witness ==
    /\ IsMismatch(op)
    /\ state = "Playing"
    /\ fader_state.touched
    /\ last_tc # TimecodeBreakDown_default
    /\ device_id # NoDevice
    /\ Len(out) = 1 /\ IsConnectionError(out[1], "ManufacturerMismatch")

\* a DEVICE_OK, or a well-formed QUERY_HOST of a device that needs no
\* challenge
IsConnecting(o) ==
    /\ IsMackieSysex(o)
    /\ \/ SysexCode(o) = 3
       \/ /\ SysexCode(o) = 1
          /\ Len(SysexData(o)) >= 11
          /\ SysexDevice(o) \notin {16, 17}

\* C8 -- Successful connection: DEVICE_OK with a valid header, and a
\* well-formed QUERY_HOST from a sub-model id other than 0x10/0x11, record
\* the message's sub-model id as the device id, set the state to Connected
\* and return exactly the successful connection result then the data
\* request, both app-bound.
C8_SuccessfulConnection ==
    [][IsConnecting(op')
        => (/\ device_id' = SysexDevice(op')
            /\ state' = "Connected"
            /\ Len(out') = 2
            /\ IsConnectionOk(out'[1])
            /\ IsDataRequest(out'[2])
            /\ ~panicked')]_vars

\* a QUERY_HOST of an X-Touch has connected the driver
C8_Witness ==
    /\ IsConnecting(op) /\ SysexCode(op) = 1
    /\ state = "Connected"
    /\ device_id = 20
    /\ Len(out) = 2 /\ IsConnectionOk(out[1]) /\ IsDataRequest(out[2])

\* C9 -- No implicit reconnect: once Disconnected, the state stays
\* Disconnected under msg_from_device, event_to_device and reset; only
\* start_identification leaves Disconnected.
C9_NoImplicitReconnect ==
    [][(state = "Disconnected" /\ op'.name # "start_identification")
        => state' = "Disconnected"]_vars

\* C10 -- start_identification, in any driver state, returns exactly one
\* message, a device-bound sysex QUERY_DEVICE with the Mackie manufacturer
\* id, and leaves the state Connecting(DeviceQueried), the fader Released,
\* the stored timecode blank, channel 0 and no device id.
C10_StartIdentification ==
    [][op'.name = "start_identification"
        => (/\ Len(out') = 1
            /\ out'[1].to = "device"
            /\ LET b == out'[1].bytes
               IN  /\ Len(b) = 7
                   /\ b[1] = 240 /\ b[7] = 247
                   /\ SubSeq(b, 2, 4) = <<0, 0, 102>>
                   /\ b[6] = 0
            /\ state' = "Connecting_DeviceQueried"
            /\ fader_state' = Released
            /\ last_tc' = [i \in 1..10 |-> 32]
            /\ chan' = 0
            /\ device_id' = NoDevice
            /\ ~panicked')]_vars

\* an identification was just started and its query handed to the caller
C10_Witness ==
    /\ op.name = "start_identification"
    /\ state = "Connecting_DeviceQueried"
    /\ Len(out) = 1 /\ out[1].to = "device"

\* C11 -- reset preserves connection identity: called in Connected, Playing
\* or Stopped, reset leaves the state Connected and the bound device id and
\* the MIDI channel unchanged; called in Connecting(_) or Disconnected it
\* leaves the state unchanged; in every case the fader becomes Released and
\* the stored timecode blank.
C11_ResetPreservesIdentity ==
    [][op'.name = "reset"
        => (/\ IF state \in {"Connected", "Playing", "Stopped"}
               THEN /\ state' = "Connected"
                    /\ device_id' = device_id
                    /\ chan' = chan
               ELSE state' = state
            /\ fader_state' = Released
            /\ last_tc' = [i \in 1..10 |-> 32])]_vars

\* C12 -- Reset idempotence: of two consecutive calls of reset from a
\* connected driver, the second leaves the driver state the first left and
\* returns the same batch, byte for byte, as the first.
C12_ResetIdempotent ==
    [][(op.name = "reset" /\ op'.name = "reset" /\ state = "Connected")
        => (Driver' = Driver /\ out' = out)]_vars

IsTimecodeEvent(o) ==
    IsEvent(o) /\ o.event.kind = "Data" /\ o.event.sub = "Timecode"

\* C13 -- Timecode diff minimality: while connected, Data::Timecode returns
\* exactly one display message [0xB0, 0x49 - i, digit] for each position i
\* where the newly rendered buffer differs from the stored one, in
\* increasing i, and nothing else; the new buffer is then stored, so the
\* same timecode sent twice in a row returns an empty batch the second time.
C13_TimecodeDiff ==
    [][/\ (IsTimecodeEvent(op') /\ state \notin NotConnectedStates)
            => LET new == TimecodeBreakDown_from(op'.event.tc)
                   diff == {i \in 1..10 : last_tc[i] # new[i]}
               IN  /\ last_tc' = new
                   /\ Len(out') = Cardinality(diff)
                   /\ \A k \in 1..Len(out') :
                         /\ out'[k].to = "device"
                         /\ Len(out'[k].bytes) = 3
                         /\ out'[k].bytes[1] = 176
                         /\ \E i \in diff :
                               /\ out'[k].bytes[2] = 73 - (i - 1)
                               /\ out'[k].bytes[3] = new[i]
                   /\ \A k \in 1..(Len(out') - 1) :
                         out'[k].bytes[2] > out'[k + 1].bytes[2]
       /\ (IsTimecodeEvent(op) /\ op' = op /\ state \notin NotConnectedStates)
            => out' = << >>
      ]_vars

\* a timecode one second later than the one shown changed a single digit
C13_Witness ==
    /\ IsTimecodeEvent(op)
    /\ state \notin NotConnectedStates
    /\ Len(out) = 1
    /\ out[1].bytes = <<176, 67, 49>>
    /\ last_tc = <<32, 32, 48, 48, 48, 48, 49, 48, 48, 48>>

IsTransport(o, sub) ==
    IsEvent(o) /\ o.event.kind = "Transport" /\ o.event.sub = sub

\* a device-bound button LED message for button id, with value val
IsLed(m, id, val) ==
    /\ m.to = "device"
    /\ Len(m.bytes) = 3
    /\ m.bytes[1] \in 144..159
    /\ m.bytes[2] = id
    /\ m.bytes[3] = val

\* C14 -- Play/Pause transitions and LED ordering: Play in Connected or
\* Stopped sets Playing and returns [Stop LED off, Play LED on]; Play in
\* Playing changes nothing and returns [Play LED on]; Pause in Connected or
\* Playing sets Stopped and returns [Play LED off, Stop LED on]; Pause in
\* Stopped returns [Stop LED on].
C14_PlayPause ==
    [][/\ (IsTransport(op', "Play") /\ state \in {"Connected", "Stopped"})
            => (/\ state' = "Playing"
                /\ Len(out') = 2
                /\ IsLed(out'[1], 93, 0)
                /\ IsLed(out'[2], 94, 127))
       /\ (IsTransport(op', "Play") /\ state = "Playing")
            => (/\ state' = "Playing"
                /\ Len(out') = 1
                /\ IsLed(out'[1], 94, 127))
       /\ (IsTransport(op', "Pause") /\ state \in {"Connected", "Playing"})
            => (/\ state' = "Stopped"
                /\ Len(out') = 2
                /\ IsLed(out'[1], 94, 0)
                /\ IsLed(out'[2], 93, 127))
       /\ (IsTransport(op', "Pause") /\ state = "Stopped")
            => (/\ state' = "Stopped"
                /\ Len(out') = 1
                /\ IsLed(out'[1], 93, 127))
      ]_vars

\* a Play has just taken the driver to Playing
C14_Witness ==
    /\ IsTransport(op, "Play")
    /\ state = "Playing"
    /\ Len(out) = 2
    /\ IsLed(out[1], 93, 0) /\ IsLed(out[2], 94, 127)

\* C15 -- Transport sub-states need a connection: every step that enters
\* Playing or Stopped starts in Connected, Playing or Stopped.
C15_TransportNeedsConnection ==
    [][(state' \in {"Playing", "Stopped"} /\ state' # state)
        => state \in {"Connected", "Playing", "Stopped"}]_vars

\* a Pause has just taken the driver to Stopped
C15_Witness ==
    /\ IsTransport(op, "Pause")
    /\ state = "Stopped"
    /\ Len(out) = 2

\* the response of the documented cipher, every sum and difference taken
\* modulo 256
WrappingResponse(c) ==
    << ((c[1] + Xor(c[2], 10) - c[4]) % 256) % 128,
       Xor(c[3] \div 16, (c[1] + c[4]) % 256) % 128,
       Xor((c[4] - ((c[3] * 4) % 256)) % 256, Or(c[1], c[2])) % 128,
       ((c[2] - c[3] + Xor(240, (c[4] * 16) % 256)) % 256) % 128 >>

\* C16 -- Challenge-response cipher: for every challenge with bytes in
\* 0..127 the driver completes the computation and the 4 response bytes of
\* the HOST_REPLY are those of the documented formula with 8-bit wraparound,
\* each in 0..127; the challenge {1,2,3,4} gives {0x05,0x05,0x7B,0x2F}.
C16_Cipher ==
    [][(IsChallenge(op')
        /\ \A k \in 8..11 : SysexData(op')[k] \in 0..127)
        => LET c == SubSeq(SysexData(op'), 8, 11)
           IN  /\ ~panicked'
               /\ Len(DeviceBound(out')) = 1
               /\ LET b == DeviceBound(out')[1].bytes
                  IN  /\ Len(b) = 18
                      /\ SubSeq(b, 14, 17) = WrappingResponse(c)
                      /\ \A k \in 14..17 : b[k] \in 0..127
                      /\ (c = <<1, 2, 3, 4>>
                            => SubSeq(b, 14, 17) = <<5, 5, 123, 47>>)]_vars

IsDeviceMsg(o) == o.name = "msg_from_device" /\ Len(o.msg) >= 1
MsgTag(o) == o.msg[1] - (o.msg[1] % 16)
IsButtonMsg(o) == IsDeviceMsg(o) /\ MsgTag(o) = 144 /\ Len(o.msg) >= 3
IsPressOf(o, id) == IsButtonMsg(o) /\ o.msg[2] = id /\ o.msg[3] = 127

\* the messages C17 says are ignored: a button message that is neither the
\* press of a transport button nor a fader-touch report, a message with an
\* unrecognized tag, a button or fader message with fewer than two data bytes
IsIgnoredMsg(o) ==
    \/ /\ IsButtonMsg(o)
       /\ o.msg[2] # 104
       /\ ~(o.msg[2] \in {91, 92, 93, 94} /\ o.msg[3] = 127)
    \/ IsDeviceMsg(o) /\ MsgTag(o) \notin {144, 224, 240}
    \/ IsDeviceMsg(o) /\ MsgTag(o) \in {144, 224} /\ Len(o.msg) < 3

\* C17 -- Button translation: a button message with value 127 and id 91,
\* 92, 93 or 94 returns exactly one app-bound Transport event, respectively
\* Previous, Next, Stop, PlayPause; any other button message whose id is not
\* 104, a message with an unrecognized tag and a button or fader message
\* with fewer than two data bytes return an empty batch; none of them changes
\* the connection state, the fader state, the stored timecode or the device
\* id.
C17_ButtonTranslation ==
    [][/\ (IsPressOf(op', 91) => out' = <<ToApp("Previous", 0)>>)
       /\ (IsPressOf(op', 92) => out' = <<ToApp("Next", 0)>>)
       /\ (IsPressOf(op', 93) => out' = <<ToApp("Stop", 0)>>)
       /\ (IsPressOf(op', 94) => out' = <<ToApp("PlayPause", 0)>>)
       /\ (IsIgnoredMsg(op') => out' = << >>)
       /\ ((IsIgnoredMsg(op') \/ \E id \in {91, 92, 93, 94} : IsPressOf(op', id))
            => (/\ state' = state
                /\ fader_state' = fader_state
                /\ last_tc' = last_tc
                /\ device_id' = device_id
                /\ ~panicked'))
      ]_vars

\* the Play button was pressed on a playing driver whose fader is touched
C17_Witness ==
    /\ IsPressOf(op, 94)
    /\ out = <<ToApp("PlayPause", 0)>>
    /\ state = "Playing"
    /\ fader_state.touched

\* the batch of reset: the LEDs of Previous, Next, Stop and Play switched
\* off, then a blank written to the display indices 0x49 down to 0x40
IsResetBatch(list) ==
    /\ Len(list) = 14
    /\ IsLed(list[1], 91, 0)
    /\ IsLed(list[2], 92, 0)
    /\ IsLed(list[3], 93, 0)
    /\ IsLed(list[4], 94, 0)
    /\ \A i \in 0..9 :
          /\ list[5 + i].to = "device"
          /\ list[5 + i].bytes = <<176, 73 - i, 32>>

\* C18 -- Application rebinding and stop: while connected, NewApp returns
\* the reset batch followed by exactly one data request, as last message,
\* and Transport::Stop returns exactly the reset batch; after either the
\* state is Connected, the fader Released and the stored timecode blank.
C18_NewAppAndStop ==
    [][/\ (IsEvent(op') /\ op'.event.kind = "NewApp"
           /\ state \notin NotConnectedStates)
            => (/\ Len(out') = 15
                /\ IsResetBatch(SubSeq(out', 1, 14))
                /\ IsDataRequest(out'[15])
                /\ state' = "Connected"
                /\ fader_state' = Released
                /\ last_tc' = [i \in 1..10 |-> 32])
       /\ (IsTransport(op', "Stop") /\ state \notin NotConnectedStates)
            => (/\ IsResetBatch(out')
                /\ state' = "Connected"
                /\ fader_state' = Released
                /\ last_tc' = [i \in 1..10 |-> 32])
      ]_vars

\* a new application was just bound to a connected driver
C18_Witness ==
    /\ IsEvent(op) /\ op.event.kind = "NewApp"
    /\ state = "Connected"
    /\ Len(out) = 15 /\ IsDataRequest(out[15])


----------------------------------------------------------------------------
\* a button LED message or a fader message sent to the device
IsChannelMsg(m) ==
    /\ m.to = "device"
    /\ Len(m.bytes) = 3
    /\ from_tag_chan(m.bytes[1]) \in {BUTTON_TAG, FADER_TAG}

\* C19: every button LED message and every fader message the driver emits
\* carries, in the low nibble of its status byte, the channel nibble of the
\* most recently received non-sysex device message (0 if there was none),
\* whatever operations, reset and handshake sysex messages included, came in
\* between.
C19_ChannelCapture ==
    [][\A i \in 1..Len(out') :
          IsChannelMsg(out'[i]) => Channel_from(out'[i].bytes[1]) = device_chan']_vars


----------------------------------------------------------------------------
\* the batch of a touch release that re-asserts v: nothing when there is no v,
\* else the app-bound Volume(v) then the device fader message encoding v
IsReleaseBatch(list, v) ==
    IF v = NoVolume
    THEN list = << >>
    ELSE /\ Len(list) = 2
         /\ list[1] = ToApp("Volume", v)
         /\ EncodesVolume(list[2], v)

\* C20 as stated: when a touch release takes the fader from Touched to
\* Released, the batch is non-empty if and only if an application Volume event
\* was received during the touch, and both messages carry the last application
\* Volume of the touch, even when device fader moves were received meanwhile.
C20_ReleaseReassertsAppVolume ==
    [][(IsTouchRelease(op') /\ fader_state.touched)
          => (/\ ~fader_state'.touched
              /\ IsReleaseBatch(out', touch_app_volume))]_vars

\* C20 as the driver does it: when a touch release takes the fader from
\* Touched to Released, the batch is non-empty if and only if, during the
\* touch, a connected driver was handed an application Volume event or a
\* decodable device fader move was received, and both messages carry the most
\* recent of these values, whichever side it came from.
C20_ReleaseReassertsLastVolume ==
    [][(IsTouchRelease(op') /\ fader_state.touched)
          => (/\ ~fader_state'.touched
              /\ IsReleaseBatch(out', touch_volume))]_vars

\* a release has just re-asserted to the app and the motor the position of a
\* device fader move received during the touch
C20_Witness ==
    /\ IsTouchRelease(op)
    /\ ~fader_state.touched
    /\ IsReleaseBatch(out, FaderTop)


----------------------------------------------------------------------------
ConnectingStates == {"Connecting_DeviceQueried", "Connecting_ChallengeReplied"}

\* a device message whose tag is not the sysex tag (the empty message included)
IsNonSysexMsg(o) ==
    /\ o.name = "msg_from_device"
    /\ (Len(o.msg) >= 1 => from_tag_chan(o.msg[1]) # SYSEX_TAG)

\* C21 -- a stalled handshake stays put: while the connection state is
\* Connecting(DeviceQueried) or Connecting(ChallengeReplied), every call of
\* event_to_device, of reset, and of msg_from_device with a non-sysex message
\* leaves the connection state unchanged; only a sysex device message or
\* start_identification changes it.
C21_StalledHandshakeStays ==
    [][(/\ state \in ConnectingStates
        /\ (IsEvent(op') \/ op'.name = "reset" \/ IsNonSysexMsg(op')))
          => state' = state]_vars

\* a reset was just made on a driver waiting for the reply to its challenge
\* response, and the driver is still waiting
C21_Witness ==
    /\ op.name = "reset"
    /\ state = "Connecting_ChallengeReplied"
    /\ Len(out) = 14


----------------------------------------------------------------------------
\* C22 -- Play/Stop LED mutual exclusion: each LED holding the last value the
\* driver wrote for its button id (whatever the channel nibble, both off at
\* construction), the Play LED and the Stop LED are never both on at any point
\* of the emitted message stream, between the messages of one batch included,
\* over any sequence of the four operations.
C22_LedMutualExclusion ==
    [][\A k \in 0..Len(out') :
          LET l == LedsAfter(led, out', k) IN ~(l.play /\ l.stop)]_vars

\* Play was just told to a driver that was not playing: the Stop LED was
\* written off before the Play LED was written on, and only Play is on
C22_Witness ==
    /\ IsTransport(op, "Play")
    /\ Len(out) = 2
    /\ IsLed(out[1], STOP, OFF) /\ IsLed(out[2], PLAY, ON)
    /\ led = [play |-> TRUE, stop |-> FALSE]

\* C24 -- the stored timecode buffer mirrors the device display: the display
\* being blank at construction, after any sequence of the four operations
\* each position of the stored last-rendered buffer holds the character the
\* driver last wrote to the digit of that position (blank if it wrote none).
C24_BufferMirrorsDisplay == last_tc = display


----------------------------------------------------------------------------
\* C23 -- the fatal branches are unreachable: no call of event_to_device with
\* Transport::Play or Transport::Pause, after any sequence of the four
\* operations, runs into the unreachable!() arm of app_play or app_pause;
\* when the state is Connecting(_) or Disconnected the event is dropped: the
\* batch is empty and the driver is left as it was.
C23_FatalBranchesUnreachable ==
    [][(IsTransport(op', "Play") \/ IsTransport(op', "Pause"))
          => (/\ ~panicked'
              /\ state \in NotConnectedStates
                    => (out' = << >> /\ Driver' = Driver))]_vars

\* Pause was just told to a driver still waiting for the reply to its
\* challenge response: nothing was returned and nothing failed
C23_Witness ==
    /\ IsTransport(op, "Pause")
    /\ state = "Connecting_ChallengeReplied"
    /\ out = << >>
    /\ ~panicked


----------------------------------------------------------------------------
\* a call of App::shutdown, explicit or made by Drop
IsShutdownCall == shutdown_calls' = shutdown_calls + 1

\* C25 -- UI shutdown is idempotent: over any number of calls of
\* App::shutdown, the explicit ones and the one made by Drop, the Shutdown
\* request is sent to the controller thread at most once and the controller
\* thread is joined at most once, it is joined only by a call that sent the
\* request successfully, and a call made once the handle is taken does
\* nothing.
C25_ShutdownIdempotent ==
    /\ [](shutdown_sent <= 1 /\ join_calls <= 1 /\ join_calls <= shutdown_sent)
    /\ [][IsShutdownCall =>
            /\ join_calls' # join_calls => shutdown_sent' = shutdown_sent + 1
            /\ ~controller_thread =>
                 UNCHANGED <<controller_thread, req_queue, controller_running,
                             shutdown_sent, join_calls>>]_vars

\* the application was dropped after an explicit shutdown that sent the
\* request and joined the controller thread: Drop's call did nothing more
C25_Witness ==
    /\ app_pc = "dropped"
    /\ shutdown_calls >= 2
    /\ shutdown_sent = 1
    /\ join_calls = 1
    /\ ~controller_thread

\* the request could not be sent to a controller thread that had ended: the
\* handle was taken and the thread was not joined
C25_WitnessSendFailed ==
    /\ shutdown_calls >= 1
    /\ ~controller_thread
    /\ shutdown_sent = 0
    /\ join_calls = 0

====
